---- MODULE Spec2Model ----
(***************************************************************************)
(* duo-recall: the commands `vocab-refresh` and `write` of duo_recall.py,  *)
(* as one sequential state machine over the two cache files.               *)
(*                                                                         *)
(* Text is modelled as a sequence of one-character strings, so that        *)
(* str.strip, str.lower, re.sub and str.split are computed, not assumed.   *)
(* A browser interaction is one step whose outcome (a value, or a raised   *)
(* exception) is chosen by the environment.                                *)
(***************************************************************************)
EXTENDS Integers, Sequences, FiniteSets, TLC

\* ------------------------------------------------------------------ bounds
MaxLessons == 3
MaxWordsPerLesson == 2
MaxKeys == 21

\* ------------------------------------------------------- program constants
VOCAB_FILE == "my-vocab.json"
TRANSLATED_VOCAB_FILE == "my-vocab-translated.json"
BATCH == 10

\* -------------------------------------------------------------------- text
Last(s) == s[Len(s)]
Front(s) == SubSeq(s, 1, Len(s) - 1)
Range(s) == {s[n] : n \in 1..Len(s)}

RECURSIVE LStrip(_)
LStrip(s) == IF s # <<>> /\ Head(s) = " " THEN LStrip(Tail(s)) ELSE s

RECURSIVE RStrip(_)
RStrip(s) == IF s # <<>> /\ Last(s) = " " THEN RStrip(Front(s)) ELSE s

\* str.strip(): leading and trailing whitespace removed
StripIdentity(s) == s
Strip(s) == RStrip(LStrip(s))

LowerChar(c) == IF c = "H" THEN "h" ELSE IF c = "D" THEN "d" ELSE c
\* str.lower()
Lower(s) == [n \in 1..Len(s) |-> LowerChar(s[n])]

\* position of the first c in s, 0 when there is none
RECURSIVE IndexFrom(_, _, _)
IndexFrom(s, c, n) ==
    IF n > Len(s) THEN 0 ELSE IF s[n] = c THEN n ELSE IndexFrom(s, c, n + 1)

\* re.sub(r"\[.*?\]", "", s): every shortest "[...]" group removed, left to right
RECURSIVE RemoveBrackets(_)
RemoveBrackets(s) ==
    IF s = <<>> THEN <<>>
    ELSE IF Head(s) = "[" /\ IndexFrom(s, "]", 2) # 0
         THEN RemoveBrackets(SubSeq(s, IndexFrom(s, "]", 2) + 1, Len(s)))
         ELSE <<Head(s)>> \o RemoveBrackets(Tail(s))

\* str.split(","): the pieces between commas, empty pieces included
RECURSIVE SplitComma(_)
SplitComma(s) ==
    IF IndexFrom(s, ",", 1) = 0 THEN <<s>>
    ELSE <<SubSeq(s, 1, IndexFrom(s, ",", 1) - 1)>>
         \o SplitComma(SubSeq(s, IndexFrom(s, ",", 1) + 1, Len(s)))

RECURSIVE StripNonEmpty(_)
StripNonEmpty(parts) ==
    IF parts = <<>> THEN <<>>
    ELSE IF Strip(Head(parts)) # <<>>
         THEN <<Strip(Head(parts))>> \o StripNonEmpty(Tail(parts))
         ELSE StripNonEmpty(Tail(parts))

\* lines 217-220: title attribute -> list of translations
ParseTitle(title_attr) == StripNonEmpty(SplitComma(Strip(RemoveBrackets(title_attr))))

\* ------------------------------------------------- what the pages can show
\* inner_text() of a <b> element of a notes block
RawTexts == { <<"a">>, <<" ", "a", " ">>, <<"b", " ">>, <<"b">> }
Words == { Strip(r) : r \in RawTexts }

\* title attribute of a matching span.wA
Titles == { <<"h">>,
            <<"[", "n", "]", " ", "h", ",", " ", "D">>,
            <<"[", "n", "]">> }

\* what the user types at a quiz prompt
Answers == { <<"h">>, <<" ", "H", " ">>, <<"d">>, <<>>, <<"x">> }

EmptyMap == [w \in {} |-> <<>>]
MapSet(m, w, v) == [x \in (DOMAIN m) \cup {w} |-> IF x = w THEN v ELSE m[x]]

\* ------------------------------------------------------------------- state
VARIABLES
    vocab_file,        \* my-vocab.json: [state: absent | corrupt | ok, data]
    trans_file,        \* my-vocab-translated.json: the same, data a mapping
    cmd,               \* the command being run: idle | vocab_refresh | write
    pc,                \* its position
    exit_code,         \* exit code of the command once pc = "done", else -1
    stdout,            \* fatal-path and save messages printed by this command
    pw_active,         \* inside a `with sync_playwright()` block
    browser,           \* none | open | closed
    sessions_opened,   \* chromium.launch calls of this command
    vocab_writes,      \* times this command opened my-vocab.json for writing
    trans_writes,      \* the same for my-vocab-translated.json
    lessons_n, i, is_completed, completed_words, seen_words, word_n, j, word,
    vocab, translated_vocab, words_to_translate, k, looked_up,
    quiz_words, question_index, batch_size, questions, q,
    correct_count, total_questions,
    user_input,        \* the last answer typed
    continue_prompt,   \* the last response to "Continue with more?"
    asked,             \* the words put to the user so far, in order
    prev               \* how the previous command ended (history)

filevars == <<vocab_file, trans_file>>
ctlvars == <<cmd, pc, exit_code, stdout>>
brvars == <<pw_active, browser, sessions_opened>>
cntvars == <<vocab_writes, trans_writes>>
rfvars == <<lessons_n, i, is_completed, completed_words, seen_words, word_n, j, word>>
wrvars == <<vocab, translated_vocab, words_to_translate, k, looked_up>>
qzvars == <<quiz_words, question_index, batch_size, questions, q,
            correct_count, total_questions, user_input, continue_prompt, asked>>
vars == <<filevars, ctlvars, brvars, cntvars, rfvars, wrvars, qzvars, prev>>

\* no response yet
Unset == <<"unset">>
Absent == [state |-> "absent", data |-> <<>>]
Corrupt == [state |-> "corrupt", data |-> <<>>]
Ok(d) == [state |-> "ok", data |-> d]

\* ---------------------------------------------------------------- messages
MsgVocabNotFound ==
    <<"'", VOCAB_FILE, "' ", "not found", ". Please run 'duo-recall vocab-refresh' first.">>
MsgVocabReadError == <<"Error reading '", VOCAB_FILE, "'">>
MsgVocabEmpty == <<"No words to practice. The vocab file is empty.">>
MsgVocabSaved == <<"Successfully saved vocabulary to '", VOCAB_FILE, "'">>
MsgVocabSaveError == <<"Error saving file">>
MsgTransReadError == <<"Error reading translated vocabulary file">>
MsgTransSaved == <<"Successfully saved translated vocabulary to '", TRANSLATED_VOCAB_FILE, "'">>
MsgTransSaveError == <<"Error saving translated vocabulary file">>
MsgLookupFailed(spanish_word) ==
    <<"Could not find translation for '", spanish_word, "'. Skipping...">>
MsgNoTranslations == <<"No translations found. Cannot start quiz.">>
Contains(msg, fragment) == \E n \in 1..Len(msg) : msg[n] = fragment

Init ==
    /\ vocab_file = Absent
    /\ trans_file = Absent
    /\ cmd = "idle" /\ pc = "done" /\ exit_code = 0 /\ stdout = {}
    /\ pw_active = FALSE /\ browser = "none" /\ sessions_opened = 0
    /\ vocab_writes = 0 /\ trans_writes = 0
    /\ lessons_n = 0 /\ i = 0 /\ is_completed = FALSE
    /\ completed_words = <<>> /\ seen_words = {} /\ word_n = 0 /\ j = 0 /\ word = <<>>
    /\ vocab = <<>> /\ translated_vocab = EmptyMap /\ words_to_translate = <<>>
    /\ k = 0 /\ looked_up = <<>>
    /\ quiz_words = <<>> /\ question_index = 0 /\ batch_size = 0
    /\ questions = <<>> /\ q = 0 /\ correct_count = 0 /\ total_questions = 0
    /\ user_input = Unset /\ continue_prompt = Unset /\ asked = <<>>
    /\ prev = "none"

\* ------------------------------------------------------- command lifecycle
\* how a finished command is remembered by the next one
TranslationStepDone ==
    cmd = "write" /\ pc = "done" /\ exit_code = 0 /\ MsgVocabEmpty \notin stdout
Summary ==
    IF cmd = "idle" THEN "none"
    ELSE IF cmd = "vocab_refresh" THEN "refresh"
    ELSE IF ~TranslationStepDone THEN "write_aborted"
    ELSE IF \A w \in Range(vocab) : w \in DOMAIN translated_vocab THEN "write_clean"
    ELSE "write_missing"

\* a new process: every local starts afresh, the files stay
Start(c, first) ==
    /\ pc \in {"done", "crashed"}
    /\ prev' = Summary
    /\ cmd' = c /\ pc' = first /\ exit_code' = -1 /\ stdout' = {}
    /\ pw_active' = FALSE /\ browser' = "none" /\ sessions_opened' = 0
    /\ vocab_writes' = 0 /\ trans_writes' = 0
    /\ lessons_n' = 0 /\ i' = 0 /\ is_completed' = FALSE
    /\ completed_words' = <<>> /\ seen_words' = {} /\ word_n' = 0 /\ j' = 0 /\ word' = <<>>
    /\ vocab' = <<>> /\ translated_vocab' = EmptyMap /\ words_to_translate' = <<>>
    /\ k' = 0 /\ looked_up' = <<>>
    /\ quiz_words' = <<>> /\ question_index' = 0 /\ batch_size' = 0
    /\ questions' = <<>> /\ q' = 0 /\ correct_count' = 0 /\ total_questions' = 0
    /\ user_input' = Unset /\ continue_prompt' = Unset /\ asked' = <<>>
    /\ UNCHANGED filevars

\* an exception leaves the `with sync_playwright()` block and the command:
\* the context manager stops the driver and with it the browser it launched
RaiseNoRelease ==
    /\ pc' = "crashed" /\ exit_code' = 1
    /\ UNCHANGED <<pw_active, browser>>
Raise ==
    /\ pc' = "crashed" /\ exit_code' = 1
    /\ pw_active' = FALSE
    /\ browser' = IF browser = "open" THEN "closed" ELSE browser

\* raise typer.Exit(code)
Exit(code, msgs) ==
    /\ pc' = "done" /\ exit_code' = code /\ stdout' = stdout \cup msgs

\* ------------------------------------------------------------ file helpers
\* how a write to a file can end
SaveOutcomes == {"saved", "open_failed", "write_failed"}

\* lines 26-34: the file afterwards, the message and whether typer.Exit(1) is raised
save_vocab_to_file(words, outcome) ==
    IF outcome = "saved"
    THEN [file |-> Ok(words), msg |-> MsgVocabSaved, exit |-> FALSE, opened |-> 1]
    ELSE IF outcome = "open_failed"
    THEN [file |-> vocab_file, msg |-> MsgVocabSaveError, exit |-> TRUE, opened |-> 0]
    ELSE [file |-> Corrupt, msg |-> MsgVocabSaveError, exit |-> TRUE, opened |-> 1]

\* ----------------------------------------------------------- vocab-refresh
VocabRefreshStart == Start("vocab_refresh", "rf_open")

\* line 119: the for loop moves to lesson n, or ends
GotoLesson(n) ==
    IF n < lessons_n THEN pc' = "rf_expand" /\ i' = n
    ELSE pc' = "rf_close" /\ i' = i

\* lines 97-117: launch, open the profile, open the Skills tab, count the lessons
RfOpen ==
    /\ cmd = "vocab_refresh" /\ pc = "rf_open"
    /\ sessions_opened' = sessions_opened + 1
    /\ \/ /\ pw_active' = TRUE /\ browser' = "open"
          /\ \E n \in 0..MaxLessons :
                /\ lessons_n' = n
                /\ IF n > 0 THEN pc' = "rf_expand" ELSE pc' = "rf_close"
          /\ UNCHANGED <<exit_code, i>>
       \/ \* goto, wait_for_selector or click raises
          /\ pc' = "crashed" /\ exit_code' = 1
          /\ pw_active' = FALSE /\ browser' = "closed"
          /\ UNCHANGED <<lessons_n, i>>
    /\ UNCHANGED <<filevars, cmd, stdout, cntvars, is_completed, completed_words,
                   seen_words, word_n, j, word, wrvars, qzvars, prev>>

\* line 123: lesson.locator('span[title="Tips and notes"]').click(), outside the try
RfExpand ==
    /\ cmd = "vocab_refresh" /\ pc = "rf_expand"
    /\ \/ pc' = "rf_crown" /\ UNCHANGED <<exit_code, brvars>>
       \/ Raise /\ UNCHANGED sessions_opened
    /\ UNCHANGED <<filevars, cmd, stdout, cntvars, rfvars, wrvars, qzvars, prev>>

\* lines 127-128: break when the marker is visible
CrownBranchNoBreak(visible) == "rf_reveal"
CrownBranch(visible) == IF visible THEN "rf_close" ELSE "rf_reveal"

\* lines 126-128: lesson.locator(".crown.empty").is_visible(), outside the try
RfCrown ==
    /\ cmd = "vocab_refresh" /\ pc = "rf_crown"
    /\ \/ \E visible \in BOOLEAN :
             /\ is_completed' = visible
             /\ pc' = CrownBranch(visible)
             /\ UNCHANGED <<exit_code, brvars>>
       \/ Raise /\ UNCHANGED <<sessions_opened, is_completed>>
    /\ UNCHANGED <<filevars, cmd, stdout, cntvars, lessons_n, i, completed_words,
                   seen_words, word_n, j, word, wrvars, qzvars, prev>>

\* lines 130-132, 153-155: lesson.click() inside the try
RfReveal ==
    /\ cmd = "vocab_refresh" /\ pc = "rf_reveal"
    /\ \/ pc' = "rf_notes" /\ i' = i
       \/ GotoLesson(i + 1)
    /\ UNCHANGED <<filevars, cmd, exit_code, stdout, brvars, cntvars, lessons_n,
                   is_completed, completed_words, seen_words, word_n, j, word, wrvars,
                   qzvars, prev>>

\* lines 134-140, 145-147, 153-155: the notes block; word_elements.count()
RfNotes ==
    /\ cmd = "vocab_refresh" /\ pc = "rf_notes"
    /\ \/ \E n \in 0..MaxWordsPerLesson :
             word_n' = n /\ j' = 0 /\ pc' = "rf_word" /\ i' = i
       \/ pc' = "rf_close" /\ UNCHANGED <<word_n, j, i>>
       \/ GotoLesson(i + 1) /\ UNCHANGED <<word_n, j>>
    /\ UNCHANGED <<filevars, cmd, exit_code, stdout, brvars, cntvars, lessons_n,
                   is_completed, completed_words, seen_words, word, wrvars, qzvars, prev>>

\* lines 142-144
AddWordNoDedup(words, seen, text) == Append(words, text)
AddWord(words, seen, text) == IF text \notin seen THEN Append(words, text) ELSE words

\* lines 140-144, 153-155: one <b> element of the notes block
RfWord ==
    /\ cmd = "vocab_refresh" /\ pc = "rf_word" /\ j < word_n
    /\ \/ \E raw \in RawTexts :
             /\ word' = Strip(raw)
             /\ completed_words' = AddWord(completed_words, seen_words, Strip(raw))
             /\ seen_words' = seen_words \cup {Strip(raw)}
             /\ j' = j + 1
             /\ UNCHANGED <<pc, i>>
       \/ \* inner_text() raises
          GotoLesson(i + 1) /\ UNCHANGED <<completed_words, seen_words, j, word>>
    /\ UNCHANGED <<filevars, cmd, exit_code, stdout, brvars, cntvars, lessons_n,
                   is_completed, word_n, wrvars, qzvars, prev>>

\* lines 149-151: the lesson's words are read; on to the next lesson
RfLessonDoneSaving ==
    /\ cmd = "vocab_refresh" /\ pc = "rf_word" /\ j = word_n
    /\ GotoLesson(i + 1)
    /\ vocab_file' = Ok(completed_words) /\ vocab_writes' = vocab_writes + 1
    /\ UNCHANGED <<trans_file, cmd, exit_code, stdout, brvars, trans_writes, lessons_n,
                   is_completed, completed_words, seen_words, word_n, j, word, wrvars,
                   qzvars, prev>>
RfLessonDone ==
    /\ cmd = "vocab_refresh" /\ pc = "rf_word" /\ j = word_n
    /\ GotoLesson(i + 1)
    /\ UNCHANGED <<filevars, cmd, exit_code, stdout, brvars, cntvars, lessons_n,
                   is_completed, completed_words, seen_words, word_n, j, word, wrvars,
                   qzvars, prev>>

\* line 157: browser.close()
RfClose ==
    /\ cmd = "vocab_refresh" /\ pc = "rf_close"
    /\ browser' = "closed" /\ pc' = "rf_save"
    /\ UNCHANGED <<filevars, cmd, exit_code, stdout, pw_active, sessions_opened,
                   cntvars, rfvars, wrvars, qzvars, prev>>

\* lines 160-163 and the end of the with block
RfSave ==
    /\ cmd = "vocab_refresh" /\ pc = "rf_save"
    /\ \E outcome \in SaveOutcomes :
          LET r == save_vocab_to_file(completed_words, outcome) IN
          /\ vocab_file' = r.file
          /\ vocab_writes' = vocab_writes + r.opened
          /\ Exit(IF r.exit THEN 1 ELSE 0, {r.msg})
    /\ pw_active' = FALSE
    /\ UNCHANGED <<trans_file, cmd, browser, sessions_opened, trans_writes, rfvars,
                   wrvars, qzvars, prev>>

VocabRefresh ==
    \/ RfOpen \/ RfExpand \/ RfCrown \/ RfReveal \/ RfNotes \/ RfWord
    \/ RfLessonDone \/ RfClose \/ RfSave

\* -------------------------------------------------------------------- write
\* lines 37-50: the list, or the message printed before typer.Exit(code=1)
load_vocab_from_file_exit0(f) ==
    IF f.state = "absent" THEN [exit |-> TRUE, code |-> 0, msg |-> MsgVocabNotFound, value |-> <<>>]
    ELSE IF f.state = "corrupt" THEN [exit |-> TRUE, code |-> 1, msg |-> MsgVocabReadError, value |-> <<>>]
    ELSE [exit |-> FALSE, code |-> 0, msg |-> <<>>, value |-> f.data]
load_vocab_from_file(f) ==
    IF f.state = "absent" THEN [exit |-> TRUE, code |-> 1, msg |-> MsgVocabNotFound, value |-> <<>>]
    ELSE IF f.state = "corrupt" THEN [exit |-> TRUE, code |-> 1, msg |-> MsgVocabReadError, value |-> <<>>]
    ELSE [exit |-> FALSE, code |-> 0, msg |-> <<>>, value |-> f.data]

\* lines 53-62: an absent or unreadable file loads as the empty mapping
load_translated_vocab_fresh(f) == [msgs |-> {}, value |-> EmptyMap]
load_translated_vocab(f) ==
    IF f.state = "ok" THEN [msgs |-> {}, value |-> f.data]
    ELSE IF f.state = "corrupt" THEN [msgs |-> {MsgTransReadError}, value |-> EmptyMap]
    ELSE [msgs |-> {}, value |-> EmptyMap]

\* lines 65-75
save_translated_vocab(mapping, outcome) ==
    IF outcome = "saved"
    THEN [file |-> Ok(mapping), msg |-> MsgTransSaved, exit |-> FALSE, opened |-> 1]
    ELSE IF outcome = "open_failed"
    THEN [file |-> trans_file, msg |-> MsgTransSaveError, exit |-> TRUE, opened |-> 0]
    ELSE [file |-> Corrupt, msg |-> MsgTransSaveError, exit |-> TRUE, opened |-> 1]

\* line 187
WordsToTranslateAll(vocab_, mapping) == vocab_
WordsToTranslate(vocab_, mapping) ==
    SelectSeq(vocab_, LAMBDA w : w \notin DOMAIN mapping)

\* line 189: the scraping is skipped when nothing is missing
SkipTranslationNever(words, mapping) == FALSE
SkipTranslation(words, mapping) == words = <<>> /\ DOMAIN mapping # {}

WriteStart == Start("write", "wr_load")

\* lines 177-195: both files are read and the missing words worked out
WrLoad ==
    /\ cmd = "write" /\ pc = "wr_load"
    /\ LET lv == load_vocab_from_file(vocab_file)
           lt == load_translated_vocab(trans_file)
           missing == WordsToTranslate(lv.value, lt.value)
       IN  IF lv.exit
           THEN Exit(lv.code, {lv.msg}) /\ UNCHANGED wrvars
           ELSE IF lv.value = <<>>
           THEN Exit(0, {MsgVocabEmpty}) /\ UNCHANGED wrvars
           ELSE /\ vocab' = lv.value
                /\ translated_vocab' = lt.value
                /\ words_to_translate' = missing
                /\ stdout' = stdout \cup lt.msgs
                /\ pc' = IF SkipTranslation(missing, lt.value) THEN "quiz_start" ELSE "wr_open"
                /\ UNCHANGED <<exit_code, k, looked_up>>
    /\ UNCHANGED <<filevars, cmd, brvars, cntvars, rfvars, qzvars, prev>>

\* lines 197-203: launch, open the dictionary page, wait for the search box
WrOpen ==
    /\ cmd = "write" /\ pc = "wr_open"
    /\ sessions_opened' = sessions_opened + 1
    /\ \/ /\ pw_active' = TRUE /\ browser' = "open"
          /\ pc' = IF words_to_translate = <<>> THEN "wr_close" ELSE "wr_lookup"
          /\ UNCHANGED exit_code
       \/ \* goto or wait_for_selector raises
          /\ pc' = "crashed" /\ exit_code' = 1
          /\ pw_active' = FALSE /\ browser' = "closed"
    /\ UNCHANGED <<filevars, cmd, stdout, cntvars, rfvars, wrvars, qzvars, prev>>

\* line 222: translated_vocab[spanish_word] = translations_list
StoreTranslationNonEmptyOnly(mapping, spanish_word, translations_list) ==
    IF translations_list = <<>> THEN mapping
    ELSE MapSet(mapping, spanish_word, translations_list)
StoreTranslation(mapping, spanish_word, translations_list) ==
    MapSet(mapping, spanish_word, translations_list)

\* line 205: the for loop goes on to the next word, or ends
AfterLookupStop(done, n) == "wr_close"
AfterLookup(done, n) == IF done < n THEN "wr_lookup" ELSE "wr_close"

\* lines 205-231: the lookup of words_to_translate[k], caught when it raises
WrLookup ==
    /\ cmd = "write" /\ pc = "wr_lookup" /\ k < Len(words_to_translate)
    /\ LET spanish_word == words_to_translate[k + 1] IN
       /\ looked_up' = Append(looked_up, spanish_word)
       /\ \/ \E title_attr \in Titles :
                /\ translated_vocab' =
                      StoreTranslation(translated_vocab, spanish_word,
                                       ParseTitle(title_attr))
                /\ UNCHANGED stdout
          \/ \* the wait times out, or there is no title attribute
             /\ stdout' = stdout \cup {MsgLookupFailed(spanish_word)}
             /\ UNCHANGED translated_vocab
    /\ k' = k + 1
    /\ pc' = AfterLookup(k + 1, Len(words_to_translate))
    /\ UNCHANGED <<filevars, cmd, exit_code, brvars, cntvars, rfvars,
                   vocab, words_to_translate, qzvars, prev>>

\* line 233: browser.close()
WrClose ==
    /\ cmd = "write" /\ pc = "wr_close"
    /\ browser' = "closed" /\ pc' = "wr_save"
    /\ UNCHANGED <<filevars, cmd, exit_code, stdout, pw_active, sessions_opened,
                   cntvars, rfvars, wrvars, qzvars, prev>>

\* line 234 and the end of the with block
WrSave ==
    /\ cmd = "write" /\ pc = "wr_save"
    /\ \E outcome \in SaveOutcomes :
          LET r == save_translated_vocab(translated_vocab, outcome) IN
          /\ trans_file' = r.file
          /\ trans_writes' = trans_writes + r.opened
          /\ IF r.exit
             THEN Exit(1, {r.msg})
             ELSE pc' = "quiz_start" /\ stdout' = stdout \cup {r.msg}
                  /\ UNCHANGED exit_code
    /\ pw_active' = FALSE
    /\ UNCHANGED <<vocab_file, cmd, browser, sessions_opened, vocab_writes, rfvars,
                   wrvars, qzvars, prev>>

\* ---------------------------------------------------------------- the quiz
Min(x, y) == IF x < y THEN x ELSE y
\* random.shuffle: any order of the keys
Shuffles(S) ==
    {s \in [1..Cardinality(S) -> S] : \A m, n \in 1..Cardinality(S) : s[m] = s[n] => m = n}

\* line 261
IsCorrectUntrimmed(answer, english_translations) ==
    Lower(answer) \in {Lower(t) : t \in Range(english_translations)}
IsCorrect(answer, english_translations) ==
    Strip(Lower(answer)) \in {Lower(t) : t \in Range(english_translations)}

\* line 236: if not translated_vocab
NoTranslationsNever(mapping) == FALSE
NoTranslations(mapping) == DOMAIN mapping = {}

\* lines 236-248
QuizStart ==
    /\ cmd = "write" /\ pc = "quiz_start"
    /\ IF NoTranslations(translated_vocab)
       THEN Exit(0, {MsgNoTranslations}) /\ UNCHANGED quiz_words
       ELSE /\ quiz_words' \in Shuffles(DOMAIN translated_vocab)
            /\ pc' = "quiz_batch"
            /\ UNCHANGED <<exit_code, stdout>>
    /\ UNCHANGED <<filevars, cmd, brvars, cntvars, rfvars, wrvars, question_index,
                   batch_size, questions, q, correct_count, total_questions,
                   user_input, continue_prompt, asked, prev>>

\* line 252: quiz_words[question_index : question_index + batch_size]
BatchSliceFromStart(words, index, size) == SubSeq(words, 1, Min(size, Len(words)))
BatchSlice(words, index, size) ==
    SubSeq(words, index + 1, Min(index + size, Len(words)))

\* lines 250-253: the while test and the slice of the next batch
QuizBatch ==
    /\ cmd = "write" /\ pc = "quiz_batch"
    /\ IF question_index < Len(quiz_words)
       THEN LET size == Min(BATCH, Len(quiz_words) - question_index) IN
            /\ batch_size' = size
            /\ questions' = BatchSlice(quiz_words, question_index, size)
            /\ question_index' = question_index + size
            /\ q' = 0
            /\ pc' = "quiz_ask"
       ELSE pc' = "quiz_report" /\ UNCHANGED <<batch_size, questions, question_index, q>>
    /\ UNCHANGED <<filevars, cmd, exit_code, stdout, brvars, cntvars, rfvars, wrvars,
                   quiz_words, correct_count, total_questions, user_input,
                   continue_prompt, asked, prev>>

\* lines 255-267: one question of the batch
QuizAsk ==
    /\ cmd = "write" /\ pc = "quiz_ask" /\ q < Len(questions)
    /\ \E answer \in Answers :
          /\ user_input' = answer
          /\ total_questions' = total_questions + 1
          /\ correct_count' =
                IF IsCorrect(answer, translated_vocab[questions[q + 1]])
                THEN correct_count + 1 ELSE correct_count
    /\ asked' = Append(asked, questions[q + 1])
    /\ q' = q + 1
    /\ pc' = IF q + 1 < Len(questions) THEN "quiz_ask" ELSE "quiz_batch_end"
    /\ UNCHANGED <<filevars, cmd, exit_code, stdout, brvars, cntvars, rfvars, wrvars,
                   quiz_words, question_index, batch_size, questions,
                   continue_prompt, prev>>

\* lines 269-272: the second increment, then whether to prompt
QuizBatchEnd ==
    /\ cmd = "write" /\ pc = "quiz_batch_end"
    /\ question_index' = question_index + batch_size
    /\ pc' = IF question_index + batch_size < Len(quiz_words)
             THEN "quiz_prompt" ELSE "quiz_report"
    /\ UNCHANGED <<filevars, cmd, exit_code, stdout, brvars, cntvars, rfvars, wrvars,
                   quiz_words, batch_size, questions, q, correct_count,
                   total_questions, user_input, continue_prompt, asked, prev>>

\* what the user types at the continue prompt
Responses == { <<"y">>, <<"Y">>, <<"n">>, <<>> }
LowerYN(s) == [n \in 1..Len(s) |-> IF s[n] = "Y" THEN "y" ELSE IF s[n] = "N" THEN "n" ELSE s[n]]

\* lines 276-277: if continue_prompt.lower() != "y": break
AfterPromptCaseSensitive(response) ==
    IF response # <<"y">> THEN "quiz_report" ELSE "quiz_batch"
AfterPrompt(response) ==
    IF LowerYN(response) # <<"y">> THEN "quiz_report" ELSE "quiz_batch"

\* lines 273-277: reached only when the mapping has more than BATCH keys
QuizPrompt ==
    /\ cmd = "write" /\ pc = "quiz_prompt"
    /\ \E response \in Responses :
          /\ continue_prompt' = response
          /\ pc' = AfterPrompt(response)
    /\ UNCHANGED <<filevars, cmd, exit_code, stdout, brvars, cntvars, rfvars, wrvars,
                   quiz_words, question_index, batch_size, questions, q,
                   correct_count, total_questions, user_input, asked, prev>>

\* lines 279-282: the division raises when total_questions is 0
QuizReport ==
    /\ cmd = "write" /\ pc = "quiz_report"
    /\ IF total_questions = 0
       THEN pc' = "crashed" /\ exit_code' = 1
       ELSE pc' = "done" /\ exit_code' = 0
    /\ UNCHANGED <<filevars, cmd, stdout, brvars, cntvars, rfvars, wrvars, qzvars, prev>>

Write ==
    \/ WrLoad \/ WrOpen \/ WrLookup \/ WrClose \/ WrSave
    \/ QuizStart \/ QuizBatch \/ QuizAsk \/ QuizBatchEnd \/ QuizReport

Next == VocabRefreshStart \/ VocabRefresh \/ WriteStart \/ Write

Spec == Init /\ [][Next]_vars

\* ------------------------------------------- one quiz session, many keys
\* A `write` run just after line 248, with a mapping of up to MaxKeys keys
\* (Spec's pages yield at most two). Word n stands for the n-th distinct
\* Spanish word; the list on disk holds the first of them only.
KeyMapping(n) == [w \in 1..n |-> << <<"h">> >>]
\* two of the orders random.shuffle can give
Orders(n) == { [m \in 1..n |-> m], [m \in 1..n |-> n + 1 - m] }

InitQuiz ==
    /\ \E n \in 1..MaxKeys :
          /\ translated_vocab = KeyMapping(n)
          /\ trans_file = Ok(KeyMapping(n))
          /\ quiz_words \in Orders(n)
    /\ vocab_file = Ok(<<1>>) /\ vocab = <<1>>
    /\ cmd = "write" /\ pc = "quiz_batch" /\ exit_code = -1 /\ stdout = {}
    /\ pw_active = FALSE /\ browser = "none" /\ sessions_opened = 0
    /\ vocab_writes = 0 /\ trans_writes = 0
    /\ lessons_n = 0 /\ i = 0 /\ is_completed = FALSE
    /\ completed_words = <<>> /\ seen_words = {} /\ word_n = 0 /\ j = 0 /\ word = <<>>
    /\ words_to_translate = <<>> /\ k = 0 /\ looked_up = <<>>
    /\ question_index = 0 /\ batch_size = 0
    /\ questions = <<>> /\ q = 0 /\ correct_count = 0 /\ total_questions = 0
    /\ user_input = Unset /\ continue_prompt = Unset /\ asked = <<>>
    /\ prev = "none"

NextQuiz == QuizBatch \/ QuizAsk \/ QuizBatchEnd \/ QuizPrompt \/ QuizReport

SpecQuiz == InitQuiz /\ [][NextQuiz]_vars

\* ================================================================== claims
Quizzing ==
    cmd = "write"
    /\ pc \in {"quiz_start", "quiz_batch", "quiz_ask", "quiz_batch_end",
               "quiz_prompt", "quiz_report"}
\* a step of a `vocab-refresh` run starts here
Scanning == cmd = "vocab_refresh" /\ pc \notin {"done", "crashed"}
\* the translation step of this `write` run is over
AfterTranslation == Quizzing \/ TranslationStepDone
\* the mapping my-vocab-translated.json holds for a reader
FileMapping == IF trans_file.state = "ok" THEN trans_file.data ELSE EmptyMap
NoDuplicates(s) == \A m, n \in 1..Len(s) : s[m] = s[n] => m = n
IsTrimmed(s) == s = <<>> \/ (s[1] # " " /\ s[Len(s)] # " ")

\* C1: `write` with my-vocab.json absent prints a message naming the file and
\* saying "not found", ends with exit code 1, and opens no browser session,
\* writes no file and asks no question.
C1_MissingVocabFile ==
    (cmd = "write" /\ vocab_file.state = "absent" /\ pc # "wr_load") =>
        /\ pc = "done" /\ exit_code = 1
        /\ \E m \in stdout : Contains(m, VOCAB_FILE) /\ Contains(m, "not found")
        /\ sessions_opened = 0 /\ browser = "none" /\ ~pw_active
        /\ vocab_writes = 0 /\ trans_writes = 0
        /\ looked_up = <<>> /\ total_questions = 0
C1_Witness ==
    cmd = "write" /\ vocab_file.state = "absent" /\ pc = "done" /\ exit_code = 1

\* C2 (as claimed): `write` with a vocabulary cache that loads as the empty list
\* ends with exit code 1, before any lookup or question.
C2_EmptyVocabExitsOne ==
    (cmd = "write" /\ vocab_file = Ok(<<>>) /\ pc # "wr_load") =>
        /\ pc = "done" /\ exit_code = 1
        /\ sessions_opened = 0 /\ looked_up = <<>> /\ total_questions = 0

\* C3 (as claimed): once the translation step is over the mapping has a key for
\* every word of the loaded list, whatever the lookups did.
C3_EveryWordCovered ==
    AfterTranslation => \A w \in Range(vocab) : w \in DOMAIN translated_vocab

\* C3 (amended): once the translation step is over, a word of the loaded list is
\* a key of the mapping exactly when its lookup did not fail in this run.
C3_CoveredUnlessLookupFailed ==
    AfterTranslation =>
        \A w \in Range(vocab) :
            (w \in DOMAIN translated_vocab) <=> (MsgLookupFailed(w) \notin stdout)
C3_Witness ==
    /\ cmd = "write" /\ pc = "quiz_start" /\ Len(vocab) = 2
    /\ \E w \in Range(vocab) : w \notin DOMAIN translated_vocab
    /\ \E w \in Range(vocab) : w \in Range(looked_up) /\ w \in DOMAIN translated_vocab

\* C4: the words looked up are exactly the words of the loaded list that are not
\* keys of the loaded mapping, each once and in list order; while the lookups
\* run only such words are looked up; and the mapping saved after them is the
\* merged one.
C4_LookupIffMissing ==
    /\ (cmd = "write" /\ pc \in {"wr_open", "wr_lookup", "wr_close", "wr_save"}) =>
          /\ \A w \in Range(looked_up) :
                w \in Range(vocab) /\ w \notin DOMAIN FileMapping
          /\ NoDuplicates(looked_up)
    /\ (cmd = "write" /\ pc \in {"wr_close", "wr_save"}) =>
          Range(looked_up) = {w \in Range(vocab) : w \notin DOMAIN FileMapping}
    /\ (Quizzing /\ sessions_opened = 0) =>
          /\ looked_up = <<>>
          /\ \A w \in Range(vocab) : w \in DOMAIN FileMapping
    /\ (Quizzing /\ sessions_opened = 1) =>
          /\ trans_file = Ok(translated_vocab)
          /\ Range(looked_up) \cap DOMAIN translated_vocab
                = {w \in Range(looked_up) : MsgLookupFailed(w) \notin stdout}
\* cache [a, b] with translations {a: [h]}: b alone was looked up, both are saved
C4_Witness ==
    /\ cmd = "write" /\ pc = "quiz_start" /\ Len(vocab) = 2
    /\ looked_up = <<vocab[2]>>
    /\ DOMAIN trans_file.data = Range(vocab)
    /\ trans_file.data[vocab[1]] = << <<"h">> >>

\* C5 (as claimed): a readable translation cache stays readable and keeps every
\* key with the same translation list, at every step of every run.
C5_CacheOnlyGrows ==
    [][trans_file.state = "ok" =>
          /\ trans_file'.state = "ok"
          /\ \A w \in DOMAIN trans_file.data :
                w \in DOMAIN trans_file'.data /\ trans_file'.data[w] = trans_file.data[w]
      ]_vars

\* C5 (amended): whenever the translation cache is readable before and after a
\* step, every key it had is still there with the same translation list; it
\* stops being readable only when the save of a `write` run fails partway, and
\* that run ends with exit code 1.
C5_CacheGrowsUnlessSaveFails ==
    [][trans_file.state = "ok" =>
          IF trans_file'.state = "ok"
          THEN \A w \in DOMAIN trans_file.data :
                  w \in DOMAIN trans_file'.data /\ trans_file'.data[w] = trans_file.data[w]
          ELSE cmd = "write" /\ pc = "wr_save" /\ pc' = "done" /\ exit_code' = 1
      ]_vars
C5_Witness ==
    /\ cmd = "write" /\ pc = "quiz_start" /\ trans_writes = 1
    /\ Len(looked_up) = 1 /\ Cardinality(DOMAIN trans_file.data) = 2

\* C6 (as claimed): a `write` run that follows a `write` run whose translation
\* step completed makes no lookup, opens no browser session and does not touch
\* my-vocab-translated.json, whatever the first run's lookups did.
C6_SecondRunIdle ==
    (cmd = "write" /\ prev \in {"write_clean", "write_missing"}) =>
        sessions_opened = 0 /\ looked_up = <<>> /\ trans_writes = 0

\* C6 (amended): a `write` run that follows a `write` run whose translation step
\* completed with every word of the list translated makes no lookup, opens no
\* browser session and does not touch my-vocab-translated.json.
C6_SecondRunIdleAfterCleanRun ==
    (cmd = "write" /\ prev = "write_clean") =>
        /\ sessions_opened = 0 /\ looked_up = <<>> /\ trans_writes = 0
        /\ trans_file.state = "ok"
        /\ pc # "wr_load" => translated_vocab = trans_file.data
C6_Witness ==
    cmd = "write" /\ prev = "write_clean" /\ pc = "quiz_start" /\ Len(vocab) = 2

\* C7: once a lesson's "crown empty" marker is seen the scan is over: the next
\* steps are the close and the save, no lesson after it is visited, the word
\* list does not change any more, and the list saved is the one collected
\* from the lessons before it.
C7_HaltAtFirstIncomplete ==
    /\ [](is_completed =>
            /\ cmd = "vocab_refresh" /\ pc \in {"rf_close", "rf_save", "done"}
            /\ (pc = "done" /\ exit_code = 0) => vocab_file = Ok(completed_words))
    /\ [][(is_completed /\ Scanning) =>
            completed_words' = completed_words /\ i' = i]_vars
C7_Witness ==
    /\ cmd = "vocab_refresh" /\ pc = "done" /\ exit_code = 0
    /\ is_completed /\ i = 1 /\ lessons_n = 3
    /\ Len(completed_words) = 2 /\ vocab_file = Ok(completed_words)

\* C8: the collected list never holds a word twice, holds only trimmed words,
\* holds exactly the words seen, grows only at its end by the word just read
\* when that word is new, and is the list saved.
C8_DeduplicatedInFirstSeenOrder ==
    /\ [](cmd = "vocab_refresh" =>
            /\ NoDuplicates(completed_words)
            /\ Range(completed_words) = seen_words
            /\ \A n \in 1..Len(completed_words) : IsTrimmed(completed_words[n])
            /\ (pc = "done" /\ exit_code = 0) => vocab_file = Ok(completed_words))
    /\ [][(Scanning /\ j' = j + 1) =>
            /\ IsTrimmed(word')
            /\ completed_words' =
                  IF word' \in Range(completed_words)
                  THEN completed_words ELSE Append(completed_words, word')]_vars
    /\ [][(Scanning /\ j' # j + 1) =>
            completed_words' = completed_words]_vars
\* the same word met in two lessons, and a second word between: saved once each
C8_Witness ==
    /\ cmd = "vocab_refresh" /\ pc = "done" /\ exit_code = 0
    /\ i = 1 /\ j = 2 /\ word = completed_words[1]
    /\ Len(vocab_file.data) = 2

\* C9 (as claimed): an exception at any step of a lesson (expand click, marker
\* check, reveal click, notes check, word extraction) is caught: the command
\* does not end there.
C9_LessonExceptionCaught ==
    [][(cmd = "vocab_refresh"
        /\ pc \in {"rf_expand", "rf_crown", "rf_reveal", "rf_notes", "rf_word"})
       => pc' # "crashed"]_vars

\* C10: my-vocab.json is not touched by any step of `vocab-refresh` but the save
\* that follows the scan; a run opens it for writing at most once, and a run
\* that ends with an exception never did.
C10_WriteAfterComplete ==
    /\ [](cmd = "vocab_refresh" =>
            /\ vocab_writes <= 1
            /\ vocab_writes = 1 => pc = "done"
            /\ pc = "crashed" => vocab_writes = 0)
    /\ [][(cmd = "vocab_refresh" /\ pc # "rf_save") => vocab_file' = vocab_file]_vars
\* a scan that had collected new words failed, and the previous cache is intact
C10_Witness ==
    /\ cmd = "vocab_refresh" /\ pc = "crashed"
    /\ completed_words # <<>>
    /\ vocab_file.state = "ok" /\ vocab_file.data # <<>>
    /\ vocab_file.data # completed_words

\* C11: the report's division never fails: every run that reaches the report
\* has asked at least one question, and a `write` run ends with an exception
\* only where the dictionary page failed to open, before any question. A
\* mapping with no key never reaches the report: the run ends with exit code 0
\* at the "No translations found" line.
C11_ReportNeverDividesByZero ==
    /\ (cmd = "write" /\ pc = "quiz_report") =>
          total_questions >= 1 /\ correct_count <= total_questions
    /\ (cmd = "write" /\ pc = "crashed") =>
          total_questions = 0 /\ quiz_words = <<>> /\ sessions_opened = 1
    /\ (cmd = "write" /\ MsgNoTranslations \in stdout) =>
          pc = "done" /\ exit_code = 0 /\ total_questions = 0
\* a session in which every lookup but one failed reaches the report with 0 of 1
C11_Witness ==
    /\ cmd = "write" /\ pc = "quiz_report" /\ correct_count = 0 /\ total_questions = 1
    /\ Len(looked_up) = 2 /\ Cardinality(DOMAIN translated_vocab) = 1

\* C12: each question adds one to total_questions, and adds one to
\* correct_count exactly when the answer, lower-cased and trimmed, is the
\* lower-cased form of one of the translations stored for the word asked; an
\* empty answer never counts, and no question ends the run.
C12_GradedIffTrimmedLowerMatch ==
    [][(cmd = "write" /\ pc = "quiz_ask") =>
          LET stored == translated_vocab[asked'[Len(asked')]]
              matches == \E n \in 1..Len(stored) :
                            Lower(stored[n]) = RStrip(LStrip(Lower(user_input')))
          IN  /\ Len(asked') = Len(asked) + 1
              /\ total_questions' = total_questions + 1
              /\ correct_count' = IF matches THEN correct_count + 1 ELSE correct_count
              /\ user_input' = <<>> => correct_count' = correct_count
              /\ pc' \in {"quiz_ask", "quiz_batch_end"}
      ]_vars
\* " H " was graded correct against a stored [h, D]
C12_Witness ==
    /\ cmd = "write" /\ pc \in {"quiz_ask", "quiz_batch_end"}
    /\ user_input = <<" ", "H", " ">> /\ correct_count = 1 /\ total_questions = 1
    /\ Len(translated_vocab[asked[1]]) = 2

\* C13: a command launches the browser at most once; `vocab-refresh` always
\* does, `write` does exactly when a word needs translating; and when the
\* command has ended, however it ended, the browser is not open and the
\* sync_playwright block has been left.
C13_OneSessionAlwaysReleased ==
    /\ sessions_opened <= 1
    /\ (browser = "open" \/ pw_active) => sessions_opened = 1
    /\ pc \in {"done", "crashed"} => browser # "open" /\ ~pw_active
    /\ (cmd = "vocab_refresh" /\ pc # "rf_open") =>
          sessions_opened = 1 /\ browser # "none"
    /\ (cmd = "write" /\ pc \notin {"wr_load", "wr_open"}) =>
          sessions_opened = (IF words_to_translate # <<>> THEN 1 ELSE 0)
    /\ Quizzing => browser # "open" /\ ~pw_active
\* a lesson step raised with the browser open, and the session was released
C13_Witness ==
    /\ cmd = "vocab_refresh" /\ pc = "crashed" /\ lessons_n > 0
    /\ sessions_opened = 1 /\ browser = "closed" /\ ~pw_active

\* a quiz session has ended
QuizOver == cmd = "write" /\ pc = "done" /\ quiz_words # <<>>
\* the user declined at a continue prompt
Declined == continue_prompt # Unset /\ LowerYN(continue_prompt) # <<"y">>

\* C14 (as claimed): when the user never declines, a session over a mapping of
\* N >= 1 keys asks every key exactly once and ends with total_questions = N.
C14_EveryKeyAskedOnce ==
    (QuizOver /\ ~Declined) =>
        /\ total_questions = Len(quiz_words)
        /\ Range(asked) = DOMAIN translated_vocab
        /\ NoDuplicates(asked)

\* C15: the continue prompt comes only when every question of the batch has
\* been asked; a question is followed by the next question of its batch or by
\* the batch's end, never by the prompt; a response other than "y" or "Y" leads
\* straight to the report; "y" or "Y" leads to the next batch; and once the
\* user has declined no further question is asked.
C15_PromptAtBatchBoundaryOnly ==
    /\ [](Quizzing =>
            /\ pc = "quiz_prompt" =>
                  /\ q = Len(questions) /\ q = batch_size /\ q >= 1
                  /\ question_index < Len(quiz_words)
            /\ Declined => pc = "quiz_report")
    /\ [][(Quizzing /\ pc = "quiz_ask") => pc' \in {"quiz_ask", "quiz_batch_end"}]_vars
    /\ [][(Quizzing /\ pc = "quiz_prompt") =>
            /\ pc' = IF continue_prompt' \in {<<"y">>, <<"Y">>}
                     THEN "quiz_batch" ELSE "quiz_report"
            /\ asked' = asked /\ total_questions' = total_questions]_vars
    /\ [][(cmd = "write" /\ Declined) =>
            asked' = asked /\ total_questions' = total_questions]_vars
\* after the first batch of a mapping of more than 2 * BATCH keys the user typed "n"
C15_Witness ==
    /\ QuizOver /\ continue_prompt = <<"n">>
    /\ total_questions = BATCH /\ Len(quiz_words) > 2 * BATCH

\* C16 (as claimed): when the quiz starts, every key of the mapping that is in
\* the loaded list has a non-empty translation list.
C16_NoEmptyTranslationList ==
    Quizzing =>
        \A w \in DOMAIN translated_vocab \cap Range(vocab) : translated_vocab[w] # <<>>

\* C17: when the list loaded is not empty and each of its words is a key of
\* the mapping loaded, the load goes straight to the quiz with the mapping as
\* loaded; a run that reaches the quiz without a browser session has made no
\* lookup, has not written my-vocab-translated.json, and quizzes on exactly the
\* keys of the file; and no step of the quiz touches the file or the mapping.
C17_NothingMissingNothingDone ==
    /\ [](( Quizzing /\ sessions_opened = 0) =>
            /\ looked_up = <<>> /\ trans_writes = 0
            /\ browser = "none" /\ ~pw_active
            /\ trans_file.state = "ok" /\ translated_vocab = trans_file.data
            /\ pc # "quiz_start" => Range(quiz_words) = DOMAIN trans_file.data)
    /\ [][(cmd = "write" /\ pc = "wr_load"
           /\ vocab_file.state = "ok" /\ vocab_file.data # <<>>
           /\ \A w \in Range(vocab_file.data) : w \in DOMAIN FileMapping) =>
            /\ pc' = "quiz_start" /\ translated_vocab' = FileMapping
            /\ sessions_opened' = 0 /\ trans_file' = trans_file]_vars
    /\ [][Quizzing =>
            /\ trans_file' = trans_file /\ translated_vocab' = translated_vocab
            /\ sessions_opened' = sessions_opened /\ looked_up' = looked_up]_vars
\* the list holds one word, the file two keys: both are quizzed, nothing is fetched
C17_Witness ==
    /\ cmd = "write" /\ pc = "done" /\ exit_code = 0 /\ sessions_opened = 0
    /\ Len(vocab) = 1 /\ total_questions = 2 /\ trans_writes = 0
    /\ Cardinality(DOMAIN trans_file.data) = 2

\* C18: in a run with a word to translate, my-vocab-translated.json is opened
\* for writing at most once, only when every missing word has been looked up
\* and before any question; a run that reaches the quiz has written the merged
\* mapping exactly once; no lookup step touches the file; and after a lookup,
\* failed or not, the loop goes on to the next missing word while one remains.
C18_SavedOnceAfterTheBatch ==
    /\ [](( cmd = "write" /\ words_to_translate # <<>>) =>
            /\ trans_writes <= 1
            /\ trans_writes = 1 =>
                  /\ k = Len(words_to_translate)
                  /\ Len(looked_up) = Len(words_to_translate)
            /\ pc \in {"wr_open", "wr_lookup", "wr_close", "wr_save"} =>
                  trans_writes = 0 /\ total_questions = 0
            /\ Quizzing => trans_writes = 1 /\ trans_file = Ok(translated_vocab)
            /\ total_questions > 0 => trans_writes = 1)
    /\ [][(cmd = "write" /\ pc = "wr_lookup") =>
            /\ trans_file' = trans_file /\ trans_writes' = trans_writes
            /\ k' = k + 1 /\ Len(looked_up') = k'
            /\ pc' = IF k' < Len(words_to_translate) THEN "wr_lookup" ELSE "wr_close"
      ]_vars
\* the first of two lookups failed, the second was made, then one write
C18_Witness ==
    /\ cmd = "write" /\ pc = "quiz_ask" /\ trans_writes = 1
    /\ Len(looked_up) = 2
    /\ MsgLookupFailed(looked_up[1]) \in stdout
    /\ looked_up[2] \in DOMAIN trans_file.data

\* C19: throughout a quiz, 0 <= correct_count <= total_questions <= number of
\* keys; the words asked are keys of the mapping, none twice, and they are
\* the words of the shuffled list taken in order within each batch; total_questions
\* counts them; a key is asked whether or not it is in the list on disk.
C19_QuizCountersAndAskedWords ==
    cmd = "write" =>
        /\ 0 <= correct_count /\ correct_count <= total_questions
        /\ total_questions <= Cardinality(DOMAIN translated_vocab)
        /\ total_questions = Len(asked)
        /\ NoDuplicates(asked)
        /\ \A n \in 1..Len(asked) :
              asked[n] \in DOMAIN translated_vocab /\ asked[n] \in Range(quiz_words)
        /\ pc \in {"quiz_ask", "quiz_batch_end"} =>
              \A n \in 1..q : asked[Len(asked) - q + n] = questions[n]
\* a second batch was asked, of a word that is not in the list on disk
C19_Witness ==
    /\ QuizOver /\ total_questions = BATCH + 1
    /\ asked[Len(asked)] \notin Range(vocab)
    /\ continue_prompt = <<"Y">>

====
